---- MODULE Spec2Model ----
(***************************************************************************)
(* A model of the langchain orchestration layer: LLMClient (llm.py),       *)
(* MemoryFactory and the memory managers (memory.py), PromptManager        *)
(* (prompting.py), handle_exception (decorators.py) and the CLI entry      *)
(* point (main.py).                                                        *)
(*                                                                         *)
(* Python values are encoded as follows.  None is the string None below    *)
(* (no program string equals it); a dict is a function whose DOMAIN is     *)
(* the set of its keys; a float temperature is an integer number of        *)
(* tenths; the outcome of a call is a record [tag |-> "return", value]     *)
(* or [tag |-> "raise", exc].                                              *)
(***************************************************************************)
EXTENDS Integers, Sequences, FiniteSets, TLC

VARIABLES
    client,        \* the LLMClient object: its fields after __init__
    constructed,   \* number of chat-model handles constructed so far
    inferCalls,    \* number of infer() calls made so far
    everCustom,    \* some infer() call so far had custom_token_count True
    firstHandle,   \* the handle the first infer() call returned
    lastInfer,     \* the last infer() call: its arguments and what it returned
    factory,       \* the MemoryFactory object: its fields after __init__
    buildCall,     \* the arguments of the last MemoryFactory.build call
    buildResult,   \* the outcome of the last MemoryFactory.build call
    errlog,        \* what handle_exception logged during the last call
    promptMgr,     \* the PromptManager object: its attributes after __init__
    fmtCall,       \* the arguments of the last PromptManager.formatter call
    fmtResult,     \* the outcome of the last PromptManager.formatter call
    file,          \* the configuration file ./config.yml
    mode,          \* what the user entered at the mode prompt
    pc,            \* where main() is
    conf_data,     \* main's conf_data
    conf,          \* main's conf
    trace,         \* what main() has called so far, in order
    mainOutcome,   \* how main() ended
    cfgData,       \* the config_data a ConfigManager is created from
    cfgObj,        \* the outcome of ConfigManager(cfgData)
    accCall,       \* the accessor last read on the ConfigManager
    accResult,     \* the outcome of that read
    hx,            \* the last call of a function wrapped by handle_exception
    rt,            \* the frame of a call of a function wrapped by retry
    parser,        \* the Parser object
    spCall,        \* the last call of Parser.create_schema_parser
    spResult,      \* the outcome of that call
    chat           \* the frame of a call of TextProcessor.chat

memVars == <<client, constructed, inferCalls, everCustom, firstHandle, lastInfer,
             factory, buildCall, buildResult>>
promptVars == <<promptMgr, fmtCall, fmtResult>>
mainVars == <<file, mode, pc, conf_data, conf, trace, mainOutcome>>
cfgVars == <<cfgData, cfgObj, accCall, accResult>>
decVars == <<hx, rt>>
parserVars == <<parser, spCall, spResult>>
restVars == <<cfgVars, decVars, parserVars, chat>>

vars == <<memVars, errlog, promptVars, mainVars, restVars>>

(***************************************************************************)
(* Bounds of the model.                                                    *)
(***************************************************************************)
\* infer() calls of one run of the client alone
MaxInfers == 3
\* build() and generate() calls of one run of the factory
MaxCalls == 2
MaxErrors == 2
MaxAttempts == 3

(***************************************************************************)
(* Python values.                                                          *)
(***************************************************************************)
None == "<None>"
NoneNum == -1

\* Python truthiness of an Optional[str]
TruthyStr(s) == s # None /\ s # ""

\* Python truthiness of an optional number
TruthyNum(n) == n # NoneNum /\ n # 0

\* dict.get(key, default)
DictGet(d, key, default) == IF key \in DOMAIN d THEN d[key] ELSE default

\* the empty dict
EmptyDict == [k \in {} |-> 0]

\* the dicts that hold key with one of vals, or do not hold it
Opt(key, vals) == {EmptyDict} \cup {(key :> v) : v \in vals}

Return(v) == [tag |-> "return", value |-> v]
Raise(e) == [tag |-> "raise", exc |-> e]

\* the exceptions that `except Exception` does not catch
BaseExceptions == {"KeyboardInterrupt", "SystemExit"}

(***************************************************************************)
(* decorators.py: handle_exception.  The wrapper returns what the wrapped  *)
(* function returns; on an exception it logs once and re-raises.           *)
(* inner is the [outcome, log] of the wrapped call.                        *)
(***************************************************************************)
\* the mutant: the exception is logged and None is returned in its place
handle_exception_swallows(function_name, inner) ==
    IF inner.outcome.tag = "raise" /\ inner.outcome.exc \notin BaseExceptions
    THEN [outcome |-> Return(None),
          log |-> Append(inner.log, [function |-> function_name,
                                     type |-> inner.outcome.exc])]
    ELSE inner

handle_exception(function_name, inner) ==
    IF inner.outcome.tag = "raise" /\ inner.outcome.exc \notin BaseExceptions
    THEN [outcome |-> inner.outcome,
          log |-> Append(inner.log, [function |-> function_name,
                                     type |-> inner.outcome.exc])]
    ELSE inner

(***************************************************************************)
(* decorators.py: retry(max_attempts, delay).  rt is the frame of the      *)
(* wrapper: its locals, the calls of the wrapped function made so far, the *)
(* records it logged, and how it ended.  time.sleep(delay) changes nothing.*)
(***************************************************************************)
\* the mutant: the loop runs while attempts <= max_attempts
retry_while_inclusive(frame) == frame.attempts <= frame.max_attempts

\* while attempts < max_attempts
retry_while(frame) == frame.attempts < frame.max_attempts

\* the mutant: the first exception is kept
retry_except_keeps_first(frame, exc) ==
    [frame EXCEPT !.attempts = @ + 1,
                  !.last_exception = IF @ = None THEN exc ELSE @,
                  !.log = IF frame.attempts + 1 < frame.max_attempts
                          THEN Append(@, "warning") ELSE @]

\* except Exception as e
retry_except(frame, exc) ==
    [frame EXCEPT !.attempts = @ + 1,
                  !.last_exception = exc,
                  !.log = IF frame.attempts + 1 < frame.max_attempts
                          THEN Append(@, "warning") ELSE @]

\* one pass of the loop body: the wrapped function is called and ends in o
retry_try(frame, o) ==
    LET called == [frame EXCEPT !.calls = Append(@, o)]
    IN IF o.tag = "return" \/ o.exc \in BaseExceptions
       THEN [called EXCEPT !.pc = "done", !.outcome = o]
       ELSE retry_except(called, o.exc)

\* after the loop: logger.error, raise last_exception (raise None is a TypeError)
retry_exhausted(frame) ==
    [frame EXCEPT !.pc = "done",
                  !.log = Append(@, "error"),
                  !.outcome = IF frame.last_exception = None
                              THEN Raise("TypeError")
                              ELSE Raise(frame.last_exception)]

\* the frame when the wrapper is entered
retry_enter(max_attempts) ==
    [max_attempts |-> max_attempts, attempts |-> 0, last_exception |-> None,
     calls |-> <<>>, log |-> <<>>, pc |-> "loop", outcome |-> [tag |-> "none"]]

(***************************************************************************)
(* llm.py: LLMClient.                                                      *)
(***************************************************************************)
NoHandle == [id |-> 0, kind |-> "None", model |-> None, temperature |-> NoneNum]

\* a handle is truthy unless it is None
TruthyHandle(h) == h # NoHandle

LLMClient__init__(params) ==
    [_params |-> params,
     _model |-> params["model"],
     _temperature |-> params["temperature"],
     _top_k |-> params["top_k"],
     _top_p |-> params["top_p"],
     _context_length |-> params["context_length"],
     _chat_instance |-> NoHandle]

ChatOllama(n, model, temperature) ==
    [id |-> n, kind |-> "ChatOllama", model |-> model, temperature |-> temperature]

CustomTokenCountLLM(n, model, temperature) ==
    [id |-> n, kind |-> "CustomTokenCountLLM", model |-> model,
     temperature |-> temperature]

\* the mutant: the cached handle is never reused
inferChatInstanceNoCache(self, n, custom_model, custom_temperature, custom_token_count) ==
    IF ~custom_token_count
    THEN ChatOllama(n,
                    IF TruthyStr(custom_model) THEN custom_model ELSE self._model,
                    IF TruthyNum(custom_temperature) THEN custom_temperature
                    ELSE self._temperature)
    ELSE CustomTokenCountLLM(n, self._model, self._temperature)

\* the value infer() assigns to self._chat_instance and returns; n is the
\* identity of the handle if one is constructed
inferChatInstance(self, n, custom_model, custom_temperature, custom_token_count) ==
    IF ~custom_token_count
    THEN IF TruthyHandle(self._chat_instance)
         THEN self._chat_instance
         ELSE ChatOllama(n,
                         IF TruthyStr(custom_model) THEN custom_model ELSE self._model,
                         IF TruthyNum(custom_temperature) THEN custom_temperature
                         ELSE self._temperature)
    ELSE CustomTokenCountLLM(n, self._model, self._temperature)

\* LLMClient.infer: the client after the call and the handle returned
infer(self, n, custom_model, custom_temperature, custom_token_count) ==
    LET h == inferChatInstance(self, n, custom_model, custom_temperature,
                               custom_token_count)
    IN [self |-> [self EXCEPT !._chat_instance = h], value |-> h]

(***************************************************************************)
(* memory.py: the memory managers.                                         *)
(***************************************************************************)
BaseMemoryManager__init__(cls, llm, verbose, memory) ==
    [cls |-> cls, llm |-> llm, verbose |-> verbose, memory |-> memory,
     conversation |-> [llm |-> llm, memory |-> memory, verbose |-> verbose]]

\* BufferMemoryManager(llm, **kwargs): the base __init__(llm, verbose=False)
BufferMemoryManager(llm, kwargs) ==
    IF DOMAIN kwargs \subseteq {"verbose"}
    THEN Return(BaseMemoryManager__init__("BufferMemoryManager", llm,
                    DictGet(kwargs, "verbose", FALSE),
                    [cls |-> "ConversationBufferMemory"]))
    ELSE Raise("TypeError")

WindowMemoryManager(llm, window_size, verbose) ==
    Return([window_size |-> window_size] @@
           BaseMemoryManager__init__("WindowMemoryManager", llm, verbose,
               [cls |-> "ConversationBufferWindowMemory", k |-> window_size]))

TokenMemoryManager(llm, max_token_limit, verbose) ==
    Return([max_token_limit |-> max_token_limit] @@
           BaseMemoryManager__init__("TokenMemoryManager", llm, verbose,
               [cls |-> "ConversationTokenBufferMemory", llm |-> llm,
                max_token_limit |-> max_token_limit]))

SummaryMemoryManager(llm, max_token_limit, verbose) ==
    Return([max_token_limit |-> max_token_limit] @@
           BaseMemoryManager__init__("SummaryMemoryManager", llm, verbose,
               [cls |-> "ConversationSummaryBufferMemory", llm |-> llm,
                max_token_limit |-> max_token_limit]))

(***************************************************************************)
(* memory.py: MemoryFactory.                                               *)
(***************************************************************************)
\* str.lower() on the type names the model uses
Lower(s) ==
    CASE s = "Window" -> "window"
      [] s = "TOKEN" -> "token"
      [] s = "Buffer" -> "buffer"
      [] s = "EXIT" -> "exit"
      [] s = "Exit" -> "exit"
      [] OTHER -> s

MemoryFactory__init__(memory_settings) ==
    [memory_settings |-> memory_settings,
     memory_type |-> Lower(DictGet(memory_settings, "type", "buffer")),
     window_size |-> DictGet(memory_settings, "window_size", 3),
     max_token_limit |-> DictGet(memory_settings, "max_token_limit", 100),
     verbose |-> DictGet(memory_settings, "verbose", FALSE)]

\* memory = custom_memory or self.memory_type
EffectiveMemory(self, custom_memory) ==
    IF TruthyStr(custom_memory) THEN custom_memory ELSE self.memory_type

\* the mutant: an unknown memory type falls back to the buffer memory
CreateManagerDefaultsToBuffer(memory, llm, window_size, max_token_limit, verbose, kwargs) ==
    CASE memory = "buffer" -> BufferMemoryManager(llm, kwargs)
      [] memory = "window" -> WindowMemoryManager(llm, window_size, verbose)
      [] memory = "token" -> TokenMemoryManager(llm, max_token_limit, verbose)
      [] memory = "summary" -> SummaryMemoryManager(llm, max_token_limit, verbose)
      [] OTHER -> Return(BaseMemoryManager__init__("BufferMemoryManager", llm,
                             verbose, [cls |-> "ConversationBufferMemory"]))

\* the if / elif chain that creates the memory manager
CreateManager(memory, llm, window_size, max_token_limit, verbose, kwargs) ==
    CASE memory = "buffer" -> BufferMemoryManager(llm, kwargs)
      [] memory = "window" -> WindowMemoryManager(llm, window_size, verbose)
      [] memory = "token" -> TokenMemoryManager(llm, max_token_limit, verbose)
      [] memory = "summary" -> SummaryMemoryManager(llm, max_token_limit, verbose)
      [] OTHER -> Raise("ValueError")

\* the mutant: only the token memory asks for the token-counting model
BuildTokenCountTokenOnly(memory) == memory = "token"

\* custom_token_count=(True if memory in ["token", "summary"] else False)
BuildTokenCount(memory) == memory \in {"token", "summary"}

\* MemoryFactory.build under @handle_exception: the outcome, the log, the
\* llm client after the call and the infer() call made
build(self, llm, n, custom_memory, kwargs) ==
    LET memory == EffectiveMemory(self, custom_memory)
        window_size == DictGet(kwargs, "window_size", self.window_size)
        max_token_limit == DictGet(kwargs, "max_token_limit", self.max_token_limit)
        verbose == DictGet(kwargs, "verbose", self.verbose)
        custom_token_count == BuildTokenCount(memory)
        got == infer(llm, n, None, NoneNum, custom_token_count)
        res == handle_exception("build",
                   [outcome |-> CreateManager(memory, got.value, window_size,
                                              max_token_limit, verbose, kwargs),
                    log |-> <<>>])
    IN [outcome |-> res.outcome, log |-> res.log, llm |-> got.self,
        called |-> [custom_model |-> None, custom_temperature |-> NoneNum,
                    custom_token_count |-> custom_token_count,
                    value |-> got.value]]

(***************************************************************************)
(* The LLM client and the memory factory as a state machine.               *)
(***************************************************************************)
\* the model settings a client is created from
ModelSettings ==
    {[model |-> "gemma3:12b", temperature |-> t, top_k |-> 40, top_p |-> 9,
      context_length |-> 2048] : t \in {0, 7}}

\* the memory settings a factory is created from
MemorySettings ==
    {a @@ b @@ c @@ d :
        a \in Opt("type", {"Window", "summary", "bogus"}),
        b \in Opt("window_size", {2}),
        c \in Opt("max_token_limit", {50}),
        d \in Opt("verbose", {TRUE})}

\* the custom_memory arguments and the keyword arguments of build
CustomMemories ==
    {None, "", "buffer", "window", "token", "summary", "Buffer", "bogus"}

Kwargs ==
    {a @@ b @@ c :
        a \in Opt("window_size", {1}),
        b \in Opt("max_token_limit", {40}),
        c \in Opt("verbose", BOOLEAN)}

NoInfer ==
    [custom_model |-> None, custom_temperature |-> NoneNum,
     custom_token_count |-> FALSE, value |-> NoHandle]
NoCall == [custom_memory |-> None, kwargs |-> EmptyDict, made |-> FALSE]
NoResult == [outcome |-> [tag |-> "none"], called |-> NoInfer]

\* the bookkeeping of one infer() call that returned handle h
Inferred(ctc, call) ==
    /\ constructed' = IF call.value.id = constructed + 1
                      THEN constructed + 1 ELSE constructed
    /\ inferCalls' = inferCalls + 1
    /\ everCustom' = (everCustom \/ ctc)
    /\ firstHandle' = IF inferCalls = 0 THEN call.value ELSE firstHandle
    /\ lastInfer' = call

\* a call of LLMClient.infer
Infer(custom_model, custom_temperature, custom_token_count) ==
    /\ LET got == infer(client, constructed + 1, custom_model,
                        custom_temperature, custom_token_count)
       IN /\ client' = got.self
          /\ Inferred(custom_token_count,
                      [custom_model |-> custom_model,
                       custom_temperature |-> custom_temperature,
                       custom_token_count |-> custom_token_count,
                       value |-> got.value])
    /\ UNCHANGED <<factory, buildCall, buildResult, errlog, promptVars, mainVars, restVars>>

InferAny ==
    /\ inferCalls < MaxInfers
    /\ \E custom_model \in {None, "llama3"}, custom_temperature \in {NoneNum, 0, 7},
          custom_token_count \in BOOLEAN :
        Infer(custom_model, custom_temperature, custom_token_count)

\* TextProcessor.generate: llm = self.llm_client.infer()
Generate == inferCalls < MaxCalls /\ Infer(None, NoneNum, FALSE)

\* a call of MemoryFactory.build
Build ==
    /\ inferCalls < MaxCalls
    /\ \E custom_memory \in CustomMemories, kwargs \in Kwargs :
        LET r == build(factory, client, constructed + 1, custom_memory, kwargs)
        IN /\ client' = r.llm
           /\ Inferred(r.called.custom_token_count, r.called)
           /\ buildCall' = [custom_memory |-> custom_memory, kwargs |-> kwargs,
                            made |-> TRUE]
           /\ buildResult' = [outcome |-> r.outcome, called |-> r.called]
           /\ errlog' = r.log
    /\ UNCHANGED <<factory, promptVars, mainVars, restVars>>

(***************************************************************************)
(* Python objects of the prompt and configuration code.  An object is a    *)
(* record whose field t names its type.                                    *)
(***************************************************************************)
PyNone == [t |-> "NoneType"]
PyStr(s) == [t |-> "str", s |-> s]
PyInt(n) == [t |-> "int", n |-> n]
PyList(items) == [t |-> "list", items |-> items]
PyTuple(items) == [t |-> "tuple", items |-> items]
PyDict(d) == [t |-> "dict", d |-> d]
HumanMessage(content) == [t |-> "HumanMessage", content |-> content]
ChatPromptTemplate(messages) == [t |-> "ChatPromptTemplate", messages |-> messages]

\* Python truthiness: None, 0, and the empty string, list, tuple, dict and
\* chat template (its __len__ is the number of its messages) are false
Truthy(x) ==
    CASE x.t = "NoneType" -> FALSE
      [] x.t = "str" -> x.s # ""
      [] x.t = "int" -> x.n # 0
      [] x.t \in {"list", "tuple"} -> Len(x.items) > 0
      [] x.t = "dict" -> DOMAIN x.d # {}
      [] x.t = "ChatPromptTemplate" -> Len(x.messages) > 0
      [] OTHER -> TRUE

(***************************************************************************)
(* prompting.py: PromptManager.                                            *)
(***************************************************************************)
\* the attributes __init__ sets; templates, examples and schemas are what
\* config.get returns for "prompts", "examples" and "schemas"
PromptManager__init__(config, templates, examples, schemas) ==
    [config |-> config, templates |-> templates, examples |-> examples,
     schemas |-> schemas]

\* the mutant: the text is dropped
format_simple_text_empty(prompt) ==
    handle_exception("format_simple_text",
        [outcome |-> Return(<<HumanMessage("")>>), log |-> <<>>])

format_simple_text(prompt) ==
    handle_exception("format_simple_text",
        [outcome |-> Return(<<HumanMessage(prompt.s)>>), log |-> <<>>])

format_list_of_texts(prompts) ==
    handle_exception("format_list_of_texts",
        [outcome |->
            Return([i \in 1..Len(prompts.items) |->
                        IF prompts.items[i].t = "HumanMessage"
                        THEN prompts.items[i]
                        ELSE HumanMessage(prompts.items[i].s)]),
         log |-> <<>>])

\* ChatPromptTemplate.format_messages: every message template is a literal
\* text or one {variable}, which must be among the keyword arguments
format_messages(template, kwargs) ==
    IF \E i \in 1..Len(template.messages) :
          /\ template.messages[i].kind = "var"
          /\ template.messages[i].text \notin DOMAIN kwargs
    THEN Raise("KeyError")
    ELSE Return([i \in 1..Len(template.messages) |->
                    IF template.messages[i].kind = "var"
                    THEN HumanMessage(kwargs[template.messages[i].text])
                    ELSE HumanMessage(template.messages[i].text)])

format_template_text(template, kwargs) ==
    handle_exception("format_template_text",
        [outcome |-> format_messages(template, kwargs), log |-> <<>>])

\* PromptManager.formatter under @handle_exception
formatter(self, prompt, kwargs) ==
    handle_exception("formatter",
        IF ~Truthy(prompt)
        THEN IF "default_prompt" \in DOMAIN self
             THEN format_simple_text(self.default_prompt)
             ELSE [outcome |-> Raise("AttributeError"), log |-> <<>>]
        ELSE IF prompt.t = "str"
        THEN format_simple_text(prompt)
        ELSE IF prompt.t = "list"
        THEN format_list_of_texts(prompt)
        ELSE IF prompt.t = "ChatPromptTemplate"
        THEN format_template_text(prompt, kwargs)
        ELSE [outcome |-> Raise("ValueError"), log |-> <<>>])

(***************************************************************************)
(* The prompt manager as a state machine.                                  *)
(***************************************************************************)
\* the longest list, tuple and chat template given to formatter
MaxLen == 2

SeqsUpTo(S, n) == UNION {[1..k -> S] : k \in 0..n}

ListItems == {PyStr("a"), PyStr(""), HumanMessage("a"), HumanMessage("b")}

MessageTemplates ==
    {[kind |-> "lit", text |-> "Hello"], [kind |-> "var", text |-> "text"],
     [kind |-> "var", text |-> "style"]}

Prompts ==
    {PyNone, PyStr(""), PyStr("a"), PyStr("b"), PyInt(0), PyInt(5), HumanMessage("a"),
     PyDict(EmptyDict), PyDict("text" :> "a")}
    \cup {PyList(l) : l \in SeqsUpTo(ListItems, MaxLen)}
    \cup {PyTuple(l) : l \in SeqsUpTo({PyStr("a")}, 1)}
    \cup {ChatPromptTemplate(m) : m \in SeqsUpTo(MessageTemplates, MaxLen)}

FormatKwargs ==
    {a @@ b : a \in Opt("text", {"t"}), b \in Opt("style", {"s"})}

NoFmtCall == [prompt |-> PyNone, kwargs |-> EmptyDict, made |-> FALSE]

\* a call of PromptManager.formatter
Formatter ==
    \E prompt \in Prompts, kwargs \in FormatKwargs :
        LET r == formatter(promptMgr, prompt, kwargs)
        IN /\ fmtCall' = [prompt |-> prompt, kwargs |-> kwargs, made |-> TRUE]
           /\ fmtResult' = r.outcome
           /\ errlog' = r.log
           /\ UNCHANGED <<promptMgr, memVars, mainVars, restVars>>

(***************************************************************************)
(* config.py: ConfigManager.  The object is the dict of its attributes.    *)
(***************************************************************************)
\* x in container
PyIn(x, container) ==
    CASE container.t = "dict" -> Return(x \in DOMAIN container.d)
      [] container.t \in {"list", "tuple"} ->
            Return(\E i \in 1..Len(container.items) : container.items[i] = PyStr(x))
      [] container.t = "str" -> Return(container.s = x)
      [] OTHER -> Raise("TypeError")

ConfigManagerDefaults ==
    [_model |-> "gemma3:12b", _temperature |-> 0, _memory |-> "buffer",
     _prompt |-> "What is 1+1?",
     _template |-> "Format the following message: {source} into the style: {style}",
     _source |-> "", _style |-> "", _schema_name |-> "", _schema_template |-> "",
     _examples |-> EmptyDict]

\* the settings the constructor reads under 'defaults'
DefaultsKeys ==
    {"model", "temperature", "memory", "prompt", "template", "source", "style",
     "schema_name", "schema_template"}

\* the mutant: schema_template is read under the key 'template'
ConfigManagerCustomWrongKey(config_data, defaults) ==
    [a \in DOMAIN ConfigManagerDefaults \cup {"_config_data"} |->
        IF a = "_config_data"
        THEN (IF Truthy(config_data) THEN config_data ELSE PyDict(EmptyDict))
        ELSE IF a = "_examples" THEN ConfigManagerDefaults[a]
        ELSE IF a = "_schema_template"
        THEN DictGet(defaults.d, "template", ConfigManagerDefaults[a])
        ELSE DictGet(defaults.d, CHOOSE k \in DefaultsKeys : a = "_" \o k,
                     ConfigManagerDefaults[a])]

\* the attributes after the custom settings are applied
ConfigManagerCustom(config_data, defaults) ==
    [a \in DOMAIN ConfigManagerDefaults \cup {"_config_data"} |->
        IF a = "_config_data"
        THEN (IF Truthy(config_data) THEN config_data ELSE PyDict(EmptyDict))
        ELSE IF a = "_examples" THEN ConfigManagerDefaults[a]
        ELSE DictGet(defaults.d, CHOOSE k \in DefaultsKeys : a = "_" \o k,
                     ConfigManagerDefaults[a])]

ConfigManager__init__(config_data) ==
    IF ~Truthy(config_data) THEN Return(ConfigManagerDefaults)
    ELSE LET has == PyIn("defaults", config_data)
         IN IF has.tag = "raise" THEN has
            ELSE IF ~has.value THEN Return(ConfigManagerDefaults)
            ELSE IF config_data.t # "dict" THEN Raise("TypeError")
            ELSE IF config_data.d["defaults"].t # "dict" THEN Raise("AttributeError")
            ELSE Return(ConfigManagerCustom(config_data, config_data.d["defaults"]))

\* an attribute of the object, or AttributeError when it was never set
GetAttr(self, name) ==
    IF name \in DOMAIN self THEN Return(self[name]) ELSE Raise("AttributeError")

\* a setting as a Python object: a str, or a number for the temperature
PySetting(name, v) == IF name = "temperature" THEN PyInt(v) ELSE PyStr(v)

\* self._<name> or self._config_data.get(<name>)
SettingOrConfig(self, name) ==
    LET own == PySetting(name, self["_" \o name])
    IN IF Truthy(own) THEN Return(own)
       ELSE IF "_config_data" \notin DOMAIN self THEN Raise("AttributeError")
       ELSE Return(DictGet(self._config_data.d, name, PyNone))

\* a dict display {key: value, ...}: the values are evaluated in the order of
\* keys and the first exception ends the evaluation
DictOf(keys, values) ==
    IF \E i \in 1..Len(keys) : values[keys[i]].tag = "raise"
    THEN values[keys[CHOOSE i \in 1..Len(keys) :
                        /\ values[keys[i]].tag = "raise"
                        /\ \A j \in 1..(i - 1) : values[keys[j]].tag # "raise"]]
    ELSE Return([k \in DOMAIN values |-> values[k].value])

get_model_params(self) ==
    DictOf(<<"model", "temperature">>,
           [k \in {"model", "temperature"} |-> SettingOrConfig(self, k)])

get_prompt_params(self) ==
    DictOf(<<"prompt", "template", "source", "style">>,
           [k \in {"prompt", "template", "source", "style"} |-> SettingOrConfig(self, k)])

\* self._config_data.get(key, {})
ConfigSection(self, key) ==
    IF "_config_data" \notin DOMAIN self THEN Raise("AttributeError")
    ELSE Return(DictGet(self._config_data.d, key, PyDict(EmptyDict)))

get_schemas(self) == ConfigSection(self, "schemas")

get_examples(self) == ConfigSection(self, "examples")

\* self._config_data.get("memory", self.memory)
get_memory_params(self) ==
    IF "_config_data" \notin DOMAIN self THEN Raise("AttributeError")
    ELSE LET default == GetAttr(self, "memory")
         IN IF default.tag = "raise" THEN default
            ELSE Return(DictGet(self._config_data.d, "memory", PyStr(default.value)))

get_config_data(self) ==
    IF "_config_data" \notin DOMAIN self THEN Raise("AttributeError")
    ELSE IF Truthy(self._config_data) THEN Return(self._config_data)
    ELSE Return(PyDict(EmptyDict))

Accessors ==
    {"get_model_params", "get_prompt_params", "get_schemas", "get_examples",
     "get_memory_params", "get_config_data"}

\* reading the property name of the object
Access(self, name) ==
    CASE name = "get_model_params" -> get_model_params(self)
      [] name = "get_prompt_params" -> get_prompt_params(self)
      [] name = "get_schemas" -> get_schemas(self)
      [] name = "get_examples" -> get_examples(self)
      [] name = "get_memory_params" -> get_memory_params(self)
      [] name = "get_config_data" -> get_config_data(self)

(***************************************************************************)
(* The ConfigManager as a state machine.                                   *)
(***************************************************************************)
\* the 'defaults' sections: every setting present or absent
DefaultsCore ==
    {a @@ b @@ c @@ d @@ e :
        a \in Opt("model", {"llama3"}),
        b \in Opt("temperature", {0, 7}),
        c \in Opt("memory", {"window"}),
        d \in Opt("prompt", {"Hi"}),
        e \in Opt("schema_name", {"review"})}

DefaultsRest ==
    {a @@ b @@ c @@ d :
        a \in Opt("template", {"Say {source} as {style}"}),
        b \in Opt("source", {"hello"}),
        c \in Opt("style", {"pirate"}),
        d \in Opt("schema_template", {"Extract {text}"})}

\* the other sections of a configuration
Sections ==
    {a @@ b @@ c @@ d :
        a \in Opt("schemas", {PyDict("review" :> PyList(<<>>))}),
        b \in Opt("examples", {PyDict("translate" :> PyDict(EmptyDict))}),
        c \in Opt("memory", {PyDict("type" :> PyStr("window"))}),
        d \in Opt("temperature", {PyInt(3)})}

ConfigDatas ==
    {PyNone, PyDict("defaults" :> PyNone), PyInt(5)}
    \cup {PyDict(x) : x \in Sections}
    \cup {PyDict("defaults" :> PyDict(x @@ y)) : x \in DefaultsCore, y \in DefaultsRest}
    \cup {PyDict(("defaults" :> PyDict(x)) @@ y) : x \in DefaultsCore, y \in Sections}

NoAccess == "<no accessor>"

\* reading one of the properties of the ConfigManager
ReadAccessor ==
    /\ cfgObj.tag = "return"
    /\ \E name \in Accessors :
        /\ accCall' = name
        /\ accResult' = Access(cfgObj.value, name)
    /\ UNCHANGED <<cfgData, cfgObj, memVars, errlog, promptVars, mainVars, decVars, parserVars, chat>>

InitConfig(datas) ==
    /\ cfgData \in datas
    /\ cfgObj = ConfigManager__init__(cfgData)
    /\ accCall = NoAccess
    /\ accResult = [tag |-> "none"]

IdleConfig == InitConfig({PyNone})

(***************************************************************************)
(* The decorated functions as a state machine.                             *)
(***************************************************************************)
\* how a call of the wrapped function can end
FuncOutcomes ==
    {Return("ok"), Return(None), Raise("ValueError"), Raise("KeyError"),
     Raise("KeyboardInterrupt")}

NoHandled == [called |-> FALSE]

\* a call of a function wrapped by handle_exception
CallHandled ==
    /\ Len(errlog) < MaxErrors
    /\ \E o \in FuncOutcomes :
        LET r == handle_exception("func", [outcome |-> o, log |-> errlog])
        IN /\ hx' = [called |-> TRUE, inner |-> o, before |-> errlog,
                     result |-> r.outcome]
           /\ errlog' = r.log
    /\ UNCHANGED <<rt, memVars, promptVars, mainVars, cfgVars, parserVars, chat>>

\* a pass of the loop of retry's wrapper
RetryAttempt ==
    /\ rt.pc = "loop"
    /\ retry_while(rt)
    /\ \E o \in FuncOutcomes : rt' = retry_try(rt, o)
    /\ UNCHANGED <<hx, errlog, memVars, promptVars, mainVars, cfgVars, parserVars, chat>>

\* the loop of retry's wrapper is left
RetryExhausted ==
    /\ rt.pc = "loop"
    /\ ~retry_while(rt)
    /\ rt' = retry_exhausted(rt)
    /\ UNCHANGED <<hx, errlog, memVars, promptVars, mainVars, cfgVars, parserVars, chat>>

InitDecorators(attempts) ==
    /\ hx = NoHandled
    /\ \E n \in attempts : rt = retry_enter(n)

IdleDecorators == InitDecorators({0})

(***************************************************************************)
(* parsing.py: Parser.  The object is the record of its attributes;        *)
(* _params is the ParamsConfig dataclass.  A schema is a list of fields,   *)
(* a field a mapping with the keys 'name' and 'description'.               *)
(***************************************************************************)
ParamsConfig ==
    [model |-> "gemma3:12b", temperature |-> 0, prompt |-> "What is 1+1?",
     template |-> "Format the following message: {source} into the style: {style}",
     source |-> "", style |-> "", schema_name |-> "",
     schema_template |-> "For the following text, extract information according to these instructions:\n{format_instructions}\n\nText: {text}"]

\* Python truthiness of the value of a parameter
TruthyParam(key, value) ==
    IF key = "temperature" THEN TruthyNum(value) ELSE TruthyStr(value)

update_params(self, kwargs) ==
    [self EXCEPT
        !._params = [k \in DOMAIN @ |->
                        IF k \in DOMAIN kwargs /\ TruthyParam(k, kwargs[k])
                        THEN kwargs[k] ELSE @[k]],
        !._template = IF "template" \in DOMAIN kwargs /\ TruthyStr(kwargs["template"])
                      THEN kwargs["template"] ELSE @]

\* config['defaults'].get(key) for the eight parameters, None values dropped
ParamsUpdate(defaults) ==
    [k \in DOMAIN defaults \cap DOMAIN ParamsConfig |-> defaults[k]]

load_params_from_config(self, config) ==
    LET updated == IF "defaults" \in DOMAIN config
                   THEN update_params(self, ParamsUpdate(config["defaults"].d))
                   ELSE self
        examples == IF "examples" \in DOMAIN config
                    THEN [updated EXCEPT !._examples = config["examples"].d]
                    ELSE updated
        schemas == IF "schemas" \in DOMAIN config
                   THEN [examples EXCEPT !._schemas = config["schemas"].d]
                   ELSE examples
    IN IF TruthyStr(schemas._params.template)
       THEN [schemas EXCEPT !._template = schemas._params.template]
       ELSE schemas

Parser__init__(config) ==
    LET self == [_params |-> ParamsConfig,
                 _model_name |-> ParamsConfig.model,
                 _model_temperature |-> ParamsConfig.temperature,
                 _template |-> ParamsConfig.template,
                 _schemas |-> EmptyDict,
                 _examples |-> EmptyDict]
    IN IF Truthy(config) THEN load_params_from_config(self, config.d) ELSE self

ResponseSchema(name, description) ==
    [t |-> "ResponseSchema", name |-> name, description |-> description]

StructuredOutputParser(response_schemas) ==
    [t |-> "StructuredOutputParser", response_schemas |-> response_schemas]

\* the mutant: the response schemas are collected in reverse order
ResponseSchemasReversed(schema_fields) ==
    [i \in 1..Len(schema_fields) |->
        LET field == schema_fields[Len(schema_fields) + 1 - i]
        IN ResponseSchema(field["name"], field["description"])]

\* the loop over schema_fields, for fields that have both keys
ResponseSchemas(schema_fields) ==
    [i \in 1..Len(schema_fields) |->
        ResponseSchema(schema_fields[i]["name"], schema_fields[i]["description"])]

\* the body of create_schema_parser
create_schema_parser_body(self, given_name) ==
    LET schema_name == IF TruthyStr(given_name) THEN given_name
                       ELSE self._params.schema_name
    IN IF ~TruthyStr(schema_name) \/ schema_name \notin DOMAIN self._schemas
       THEN Raise("ValueError")
       ELSE LET schema_fields == self._schemas[schema_name]
            IN IF \E i \in 1..Len(schema_fields) :
                      {"name", "description"} \ DOMAIN schema_fields[i] # {}
               THEN Raise("KeyError")
               ELSE Return(StructuredOutputParser(ResponseSchemas(schema_fields)))

\* create_schema_parser under @handle_exception; gives [outcome, log]
create_schema_parser(self, given_name, log) ==
    handle_exception("create_schema_parser",
                     [outcome |-> create_schema_parser_body(self, given_name),
                      log |-> log])

(***************************************************************************)
(* The Parser as a state machine.                                          *)
(***************************************************************************)
MaxFields == 2

SchemaFields ==
    {[name |-> "title", description |-> "The title of the film"],
     [name |-> "rating", description |-> "A rating out of five"],
     [name |-> "untitled"]}

FieldLists == SeqsUpTo(SchemaFields, MaxFields)

SchemaSections ==
    {PyDict(EmptyDict)}
    \cup {PyDict("review" :> fs) : fs \in FieldLists}
    \cup {PyDict(("review" :> fs) @@ ("person" :> <<fs[1]>>)) :
            fs \in {x \in FieldLists : x # <<>>}}

ParserDefaults ==
    {PyDict(x @@ y) : x \in Opt("schema_name", {"", "review", "missing"}),
                      y \in Opt("memory", {"window"})}

ParserConfigs ==
    {PyNone, PyDict(EmptyDict)}
    \cup {PyDict(x @@ y) : x \in Opt("defaults", ParserDefaults),
                           y \in Opt("schemas", SchemaSections)}

SchemaNames == {None, "", "review", "person", "missing"}

NoSchemaCall == [called |-> FALSE]

\* parser.create_schema_parser(schema_name)
CreateSchemaParser ==
    /\ Len(errlog) < MaxErrors
    /\ \E schema_name \in SchemaNames :
        LET r == create_schema_parser(parser, schema_name, errlog)
        IN /\ spCall' = [called |-> TRUE, self |-> parser, schema_name |-> schema_name]
           /\ spResult' = r.outcome
           /\ errlog' = r.log
    /\ UNCHANGED <<parser, memVars, promptVars, mainVars, cfgVars, decVars, chat>>

\* parser.update_params(schema_name=...) or parser.update_params(template=...)
UpdateParams ==
    /\ \E kwargs \in {"schema_name" :> "person", "schema_name" :> "",
                      "template" :> "Say {source}"} :
        parser' = update_params(parser, kwargs)
    /\ UNCHANGED <<spCall, spResult, errlog, memVars, promptVars, mainVars, cfgVars, decVars, chat>>

InitParser(configs) ==
    /\ \E config \in configs : parser = Parser__init__(config)
    /\ spCall = NoSchemaCall
    /\ spResult = [tag |-> "none"]

IdleParser == InitParser({PyNone})

(***************************************************************************)
(* processing.py: TextProcessor.chat.  The processor holds the             *)
(* ConfigManager (cfgObj), the LLMClient (client) and the MemoryFactory    *)
(* (factory).  stdin is what the user will type, one line per input().     *)
(* The events are the calls of chatbot.predict and chatbot.add_to_memory.  *)
(***************************************************************************)
\* self.config.<name>: a property of the ConfigManager or one of its attributes
ConfigAttr(config, name) ==
    IF name \in Accessors THEN Access(config, name) ELSE GetAttr(config, name)

\* memory.lower() if memory else self.memory_manager.get_memory_type
ChatMemoryType(memory_manager, memory) ==
    IF TruthyStr(memory) THEN Return(Lower(memory))
    ELSE GetAttr(memory_manager, "get_memory_type")

\* the while True loop: the events it makes and how it ends; input() raises
\* EOFError when stdin is used up
RECURSIVE chat_loop(_, _, _)
chat_loop(stdin, responses, events) ==
    IF stdin = <<>> THEN [events |-> events, outcome |-> Raise("EOFError")]
    ELSE LET user_input == Head(stdin)
             response == Head(responses)
         IN IF Lower(user_input) = "exit"
            THEN [events |-> events, outcome |-> Return(None)]
            ELSE chat_loop(Tail(stdin), Tail(responses),
                    events \o <<[op |-> "predict", input |-> user_input,
                                 response |-> response],
                                [op |-> "add_to_memory", input |-> user_input,
                                 output |-> response]>>)

\* the frame when chat(memory, verbose) is entered
chat_enter(memory, verbose, stdin) ==
    [memory |-> memory, verbose |-> verbose, stdin |-> stdin, pc |-> "build",
     built |-> FALSE, events |-> <<>>, outcome |-> [tag |-> "none"]]

\* chat ends: @handle_exception logs what it raises
chat_end(frame, outcome) == [frame EXCEPT !.pc = "done", !.outcome = outcome]

(***************************************************************************)
(* The chat as a state machine.                                            *)
(***************************************************************************)
MaxTurns == 2

\* the lines the user types and the answers of the model
UserInputs == {"hi", "Exit", "exit"}

Responses == {"hello", "bye"}

ChatMemories == {None, "", "buffer", "Window", "TOKEN", "summary", "bogus"}

\* the first statements of chat: the memory type and the memory manager
ChatBuild ==
    /\ chat.pc = "build"
    /\ LET memory_type == ChatMemoryType(factory, chat.memory)
       IN IF memory_type.tag = "raise"
          THEN /\ chat' = chat_end(chat, memory_type)
               /\ errlog' = handle_exception("chat", [outcome |-> memory_type,
                                                       log |-> errlog]).log
               /\ UNCHANGED memVars
          ELSE LET r == build(factory, client, constructed + 1, memory_type.value,
                              "verbose" :> chat.verbose)
               IN /\ client' = r.llm
                  /\ Inferred(r.called.custom_token_count, r.called)
                  /\ buildCall' = [custom_memory |-> memory_type.value,
                                   kwargs |-> "verbose" :> chat.verbose,
                                   made |-> TRUE]
                  /\ buildResult' = [outcome |-> r.outcome, called |-> r.called]
                  /\ UNCHANGED factory
                  /\ IF r.outcome.tag = "raise"
                     THEN /\ chat' = chat_end(chat, r.outcome)
                          /\ errlog' = handle_exception("chat",
                                          [outcome |-> r.outcome,
                                           log |-> errlog \o r.log]).log
                     ELSE /\ chat' = [chat EXCEPT !.pc = "loop", !.built = TRUE]
                          /\ errlog' = errlog \o r.log
    /\ UNCHANGED <<promptVars, mainVars, cfgVars, decVars, parserVars>>

\* the banner, which reads self.config.get_model, and the chat loop
ChatLoop ==
    /\ chat.pc = "loop"
    /\ \E responses \in [1..Len(chat.stdin) -> Responses] :
        LET get_model == ConfigAttr(cfgObj.value, "get_model")
            loop == chat_loop(chat.stdin, responses, <<>>)
            outcome == IF get_model.tag = "raise" THEN get_model ELSE loop.outcome
        IN /\ chat' = [chat_end(chat, outcome) EXCEPT
                          !.events = IF get_model.tag = "raise" THEN <<>>
                                     ELSE loop.events]
           /\ errlog' = handle_exception("chat", [outcome |-> outcome,
                                                   log |-> errlog]).log
    /\ UNCHANGED <<memVars, promptVars, mainVars, cfgVars, decVars, parserVars>>

InitChat(memories, stdins) ==
    \E memory \in memories, verbose \in BOOLEAN, stdin \in stdins :
        chat = chat_enter(memory, verbose, stdin)

IdleChat == InitChat({None}, {<<>>}) /\ ~chat.verbose

(***************************************************************************)
(* main.py.                                                                *)
(***************************************************************************)
\* load_configurations: open the file and yaml.safe_load it; on any
\* exception print the error and return {}.  A readable file is given by
\* the document safe_load parses from it.
load_configurations(f) ==
    IF f.state = "ok" THEN Return(f.doc) ELSE Return(PyDict(EmptyDict))

\* the mutant: every mode that is not empty is accepted
ModeAcceptedNonEmpty(m) ==
    IF m = "" THEN Raise("ValueError") ELSE Return(m)

\* main's check of the mode entered
ModeAccepted(m) ==
    IF m = "" THEN Raise("ValueError")
    ELSE IF m \notin {"prompt", "chat", "rag", "agent", "evaluate"}
    THEN Raise("ValueError")
    ELSE Return(m)

\* the callable module-level names of main.py
Callables ==
    {"mode_selector", "load_configurations", "prompt", "chat", "rag", "agent",
     "evaluate", "run_mode", "main", "ConfigManager", "LLMClient", "TextProcessor",
     "MemoryFactory", "Dict"}

\* function(conf) for a callable module-level name.  prompt and chat build a
\* TextProcessor, whose LLMClient reads config.get_model_settings, which the
\* ConfigManager does not have; rag, agent and evaluate do nothing; of the
\* others, load_configurations catches its own exception.
CallGlobal(name, c) ==
    CASE name \in {"prompt", "chat", "TextProcessor", "LLMClient", "MemoryFactory"} ->
            Raise("AttributeError")
      [] name \in {"rag", "agent", "evaluate"} -> Return(PyNone)
      [] name = "load_configurations" -> Return(PyDict(EmptyDict))
      [] OTHER -> Raise("TypeError")

\* function = globals().get(mode)
ModeFunction(m) == m

\* run_mode: the calls it makes and how it ends
run_mode(m, c) ==
    LET function == ModeFunction(m)
    IN IF function \in Callables
       THEN [calls |-> <<function>>, outcome |-> CallGlobal(function, c)]
       ELSE [calls |-> <<>>, outcome |-> Return(PyNone)]

(***************************************************************************)
(* main() as a state machine.                                              *)
(***************************************************************************)
NoConf == [none |-> TRUE]
NotEntered == "<not entered>"

\* the configuration files: missing, not YAML, and the documents parsed
Files ==
    {[state |-> "missing"], [state |-> "invalid"]}
    \cup {[state |-> "ok", doc |-> d] :
            d \in {PyNone, PyInt(5), PyList(<<PyStr("defaults")>>), PyList(<<PyStr("a")>>),
                   PyDict(EmptyDict),
                   PyDict("schemas" :> PyDict(EmptyDict)),
                   PyDict("defaults" :> PyNone),
                   PyDict("defaults" :> PyDict(EmptyDict)),
                   PyDict("defaults" :> PyDict("model" :> "llama3")),
                   PyDict("defaults" :> PyDict(("model" :> "llama3")
                                               @@ ("temperature" :> 7)))}}

Modes ==
    {"", "prompt", "chat", "rag", "agent", "evaluate", "Prompt", "main", "exit"}

Called(name) == [call |-> name]

\* mode = mode_selector()
ModeSelector ==
    /\ pc = "start"
    /\ mode' \in Modes
    /\ pc' = "selected"
    /\ UNCHANGED <<file, conf_data, conf, trace, mainOutcome, memVars, errlog, promptVars, restVars>>

\* main's if / elif on the mode
CheckMode ==
    /\ pc = "selected"
    /\ LET r == ModeAccepted(mode)
       IN IF r.tag = "raise"
          THEN pc' = "raised" /\ mainOutcome' = r
          ELSE pc' = "accepted" /\ UNCHANGED mainOutcome
    /\ UNCHANGED <<file, mode, conf_data, conf, trace, memVars, errlog, promptVars, restVars>>

\* conf_data = load_configurations(path="./config.yml")
LoadConfigurations ==
    /\ pc = "accepted"
    /\ conf_data' = load_configurations(file).value
    /\ trace' = Append(trace, Called("load_configurations"))
    /\ pc' = "loaded"
    /\ UNCHANGED <<file, mode, conf, mainOutcome, memVars, errlog, promptVars, restVars>>

\* conf = ConfigManager(conf_data)
BuildConfigManager ==
    /\ pc = "loaded"
    /\ LET r == ConfigManager__init__(conf_data)
       IN IF r.tag = "raise"
          THEN pc' = "raised" /\ mainOutcome' = r /\ UNCHANGED <<conf, trace>>
          ELSE /\ pc' = "built"
               /\ conf' = r.value
               /\ trace' = Append(trace, Called("ConfigManager"))
               /\ UNCHANGED mainOutcome
    /\ UNCHANGED <<file, mode, conf_data, memVars, errlog, promptVars, restVars>>

\* run_mode(mode, conf)
RunMode ==
    /\ pc = "built"
    /\ LET r == run_mode(mode, conf)
       IN /\ trace' = trace \o [i \in 1..Len(r.calls) |-> Called(r.calls[i])]
          /\ mainOutcome' = r.outcome
          /\ pc' = IF r.outcome.tag = "raise" THEN "raised" ELSE "done"
    /\ UNCHANGED <<file, mode, conf_data, conf, memVars, errlog, promptVars, restVars>>

InitMainVars(files) ==
    /\ file \in files
    /\ mode = NotEntered
    /\ pc = "start"
    /\ conf_data = NoConf
    /\ conf = NoConf
    /\ trace = <<>>
    /\ mainOutcome = [tag |-> "none"]

IdleMain == InitMainVars({[state |-> "missing"]})

(***************************************************************************)
(* Specifications: the LLM client alone, the memory factory with its       *)
(* client, the prompt manager, and the command line entry point.           *)
(***************************************************************************)
IdleRest == IdleConfig /\ IdleDecorators /\ IdleParser /\ IdleChat

InitClient(temperatures) ==
    /\ client \in {LLMClient__init__(p) :
                       p \in {q \in ModelSettings : q.temperature \in temperatures}}
    /\ constructed = 0
    /\ inferCalls = 0
    /\ everCustom = FALSE
    /\ firstHandle = NoHandle
    /\ lastInfer = NoInfer
    /\ errlog = <<>>

IdleFactory ==
    /\ factory = MemoryFactory__init__(EmptyDict)
    /\ buildCall = NoCall
    /\ buildResult = NoResult

InitPromptManager(templates) ==
    /\ promptMgr \in {PromptManager__init__("config", t, EmptyDict, EmptyDict) :
                         t \in templates}
    /\ fmtCall = NoFmtCall
    /\ fmtResult = [tag |-> "none"]

IdlePromptManager == InitPromptManager({EmptyDict})

InitLLM ==
    /\ InitClient({0, 7})
    /\ IdleFactory
    /\ IdlePromptManager
    /\ IdleMain
    /\ IdleRest

NextLLM == InferAny

SpecLLM == InitLLM /\ [][NextLLM]_vars

InitMemory ==
    /\ InitClient({0})
    /\ factory \in {MemoryFactory__init__(s) : s \in MemorySettings}
    /\ buildCall = NoCall
    /\ buildResult = NoResult
    /\ IdlePromptManager
    /\ IdleMain
    /\ IdleRest

NextMemory == Build \/ Generate

SpecMemory == InitMemory /\ [][NextMemory]_vars

InitPrompt ==
    /\ InitClient({0})
    /\ IdleFactory
    /\ InitPromptManager({EmptyDict, "default" :> "Say {text}"})
    /\ IdleMain
    /\ IdleRest

NextPrompt == Formatter

SpecPrompt == InitPrompt /\ [][NextPrompt]_vars

InitMain ==
    /\ InitClient({0})
    /\ IdleFactory
    /\ IdlePromptManager
    /\ InitMainVars(Files)
    /\ IdleRest

NextMain ==
    ModeSelector \/ CheckMode \/ LoadConfigurations \/ BuildConfigManager \/ RunMode

SpecMain == InitMain /\ [][NextMain]_vars

\* main() where load_configurations returns a mapping: the file is missing,
\* is not YAML, or holds a mapping
InitMainMappings ==
    /\ InitClient({0})
    /\ IdleFactory
    /\ IdlePromptManager
    /\ InitMainVars({f \in Files : f.state = "ok" => f.doc.t = "dict"})
    /\ IdleRest

SpecMainMappings == InitMainMappings /\ [][NextMain]_vars

InitConfigManager ==
    /\ InitClient({0})
    /\ IdleFactory
    /\ IdlePromptManager
    /\ IdleMain
    /\ InitConfig(ConfigDatas)
    /\ IdleDecorators
    /\ IdleParser
    /\ IdleChat

NextConfig == ReadAccessor

SpecConfig == InitConfigManager /\ [][NextConfig]_vars

InitDecorated ==
    /\ InitClient({0})
    /\ IdleFactory
    /\ IdlePromptManager
    /\ IdleMain
    /\ IdleConfig
    /\ InitDecorators(0..MaxAttempts)
    /\ IdleParser
    /\ IdleChat

NextRetry == RetryAttempt \/ RetryExhausted

NextDecorators == CallHandled \/ NextRetry

SpecDecorators == InitDecorated /\ [][NextDecorators]_vars

\* the wrapper keeps running: the wrapped function returns or raises
SpecDecoratorsFair == SpecDecorators /\ WF_vars(NextRetry)

InitParsing ==
    /\ InitClient({0})
    /\ IdleFactory
    /\ IdlePromptManager
    /\ IdleMain
    /\ IdleConfig
    /\ IdleDecorators
    /\ InitParser(ParserConfigs)
    /\ IdleChat

NextParser == CreateSchemaParser \/ UpdateParams

SpecParser == InitParsing /\ [][NextParser]_vars

\* a TextProcessor whose chat method is called
InitProcessor ==
    /\ InitClient({0})
    /\ factory \in {MemoryFactory__init__(s) : s \in MemorySettings}
    /\ buildCall = NoCall
    /\ buildResult = NoResult
    /\ IdlePromptManager
    /\ IdleMain
    /\ InitConfig({PyNone, PyDict("defaults" :> PyDict("model" :> "llama3"))})
    /\ IdleDecorators
    /\ IdleParser
    /\ InitChat(ChatMemories, SeqsUpTo(UserInputs, MaxTurns))

NextChat == ChatBuild \/ ChatLoop

SpecChat == InitProcessor /\ [][NextChat]_vars

(***************************************************************************)
(* Claims about MemoryFactory.build and LLMClient.infer.                   *)
(***************************************************************************)
\* the effective memory type of the last build call, as the claims state it:
\* custom_memory when it is given, the configured memory type otherwise
Effective ==
    IF buildCall.custom_memory \notin {None, ""}
    THEN buildCall.custom_memory ELSE factory.memory_type

ManagerOf ==
    [buffer |-> "BufferMemoryManager", window |-> "WindowMemoryManager",
     token |-> "TokenMemoryManager", summary |-> "SummaryMemoryManager"]

KnownMemory == Effective \in DOMAIN ManagerOf

\* C1: build returns the manager class that belongs to the effective memory
\* type: BufferMemoryManager for 'buffer', WindowMemoryManager for 'window',
\* TokenMemoryManager for 'token', SummaryMemoryManager for 'summary'.
C1_BuildSelectsManager ==
    (buildCall.made /\ KnownMemory) =>
        /\ buildResult.outcome.tag = "return"
        /\ buildResult.outcome.value.cls = ManagerOf[Effective]

\* C2: build with an effective memory type outside the four known ones raises
\* ValueError, which handle_exception logs once and re-raises; no manager is
\* returned.
C2_UnknownMemoryRaises ==
    (buildCall.made /\ ~KnownMemory) =>
        /\ buildResult.outcome = Raise("ValueError")
        /\ errlog = <<[function |-> "build", type |-> "ValueError"]>>

C2_Witness ==
    /\ buildCall.made
    /\ Effective = "Buffer"
    /\ buildResult.outcome.tag = "raise"

\* C3: for each of the four memory types build accepts window_size,
\* max_token_limit and verbose, and the manager uses the keyword value when
\* one is passed and the configured value otherwise: verbose for all four,
\* window_size for 'window', max_token_limit for 'token' and 'summary'.
C3_BuildUsesKwargs ==
    (buildCall.made /\ KnownMemory) =>
        /\ buildResult.outcome.tag = "return"
        /\ LET m == buildResult.outcome.value
               kw == buildCall.kwargs
           IN /\ m.verbose = DictGet(kw, "verbose", factory.verbose)
              /\ Effective = "window" =>
                    m.window_size = DictGet(kw, "window_size", factory.window_size)
              /\ Effective \in {"token", "summary"} =>
                    m.max_token_limit =
                        DictGet(kw, "max_token_limit", factory.max_token_limit)

\* C4: no handle exists after the client is created; the first infer() call
\* constructs one; while every infer() call so far had custom_token_count
\* False, each call returned that same handle and no second one was
\* constructed.
C4_LazyHandle ==
    /\ inferCalls = 0 => (client._chat_instance = NoHandle /\ constructed = 0)
    /\ (inferCalls > 0 /\ ~everCustom) =>
        /\ constructed = 1
        /\ firstHandle.id = 1
        /\ lastInfer.value = firstHandle
        /\ client._chat_instance = firstHandle

C4_Witness ==
    /\ inferCalls = MaxInfers
    /\ ~everCustom
    /\ lastInfer.custom_model # firstHandle.model
    /\ constructed = 1

\* C5: build calls infer with custom_token_count True exactly when the
\* effective memory type is 'token' or 'summary', and that call yields a
\* CustomTokenCountLLM; for every other memory type it calls infer with
\* custom_token_count False.
C5_TokenCountingModel ==
    buildCall.made =>
        /\ buildResult.called.custom_token_count
               <=> (Effective \in {"token", "summary"})
        /\ buildResult.called.custom_token_count =>
               /\ buildResult.called.value.kind = "CustomTokenCountLLM"
               /\ buildResult.outcome.value.llm.kind = "CustomTokenCountLLM"

C5_Witness ==
    /\ buildCall.made
    /\ Effective = "summary"
    /\ buildCall.custom_memory = None
    /\ buildResult.called.custom_token_count
    /\ buildResult.outcome.value.cls = "SummaryMemoryManager"

(***************************************************************************)
(* Claims about PromptManager.formatter.                                   *)
(***************************************************************************)
\* C6: formatter dispatches on the type of a non-empty prompt: a string gives
\* a one-element list holding a HumanMessage with that string; a list gives a
\* list of the same length and order, its HumanMessage elements kept and the
\* others wrapped in a HumanMessage; a ChatPromptTemplate gives its
\* format_messages result for the keyword arguments; any other type raises
\* ValueError.
C6_FormatterDispatch ==
    (fmtCall.made /\ Truthy(fmtCall.prompt)) =>
        LET prompt == fmtCall.prompt
        IN CASE prompt.t = "str" ->
                    fmtResult = Return(<<HumanMessage(prompt.s)>>)
             [] prompt.t = "list" ->
                    /\ fmtResult.tag = "return"
                    /\ Len(fmtResult.value) = Len(prompt.items)
                    /\ \A i \in 1..Len(prompt.items) :
                          fmtResult.value[i] =
                              IF prompt.items[i].t = "HumanMessage"
                              THEN prompt.items[i]
                              ELSE HumanMessage(prompt.items[i].s)
             [] prompt.t = "ChatPromptTemplate" ->
                    fmtResult = format_messages(prompt, fmtCall.kwargs)
             [] OTHER ->
                    /\ fmtResult = Raise("ValueError")
                    /\ errlog = <<[function |-> "formatter", type |-> "ValueError"]>>

C6_Witness ==
    /\ fmtCall.made
    /\ fmtCall.prompt = PyList(<<PyStr("a"), HumanMessage("b")>>)
    /\ fmtResult = Return(<<HumanMessage("a"), HumanMessage("b")>>)

\* C7: formatter called with a missing or empty prompt (None, the empty
\* string, the empty list) returns a one-element message list built from the
\* manager's default prompt and raises nothing.
C7_EmptyPromptUsesDefault ==
    (fmtCall.made /\ fmtCall.prompt \in {PyNone, PyStr(""), PyList(<<>>)}) =>
        /\ fmtResult.tag = "return"
        /\ Len(fmtResult.value) = 1
        /\ errlog = <<>>

(***************************************************************************)
(* Claims about main, run_mode and load_configurations.                    *)
(***************************************************************************)
ValidModes == {"prompt", "chat", "rag", "agent", "evaluate"}

\* C8: when the mode entered is empty or is not exactly one of the five
\* modes, main raises ValueError: the configuration file is not loaded, no
\* ConfigManager is built and no mode function runs.
C8_InvalidModeRaises ==
    (mode # NotEntered /\ mode \notin ValidModes) =>
        /\ pc \in {"selected", "raised"}
        /\ pc = "raised" => mainOutcome = Raise("ValueError")
        /\ conf_data = NoConf
        /\ conf = NoConf
        /\ trace = <<>>

C8_Witness ==
    /\ mode = "main"
    /\ pc = "raised"
    /\ mainOutcome = Raise("ValueError")
    /\ trace = <<>>

\* C9: for each of the five valid modes m, main loads the configuration, then
\* builds a ConfigManager from it, then run_mode calls the function named m
\* exactly once, and no other mode function.
C9_ModeDispatch ==
    (mode \in ValidModes /\ pc \in {"done", "raised"}) =>
        trace = <<Called("load_configurations"), Called("ConfigManager"), Called(mode)>>

\* C10: load_configurations never raises; it returns an empty dictionary when
\* the file cannot be opened or parsed, and the mapping parsed from the YAML
\* file otherwise.
C10_LoadReturnsMapping ==
    (pc \in {"loaded", "built", "done"} \/ (pc = "raised" /\ Len(trace) > 0)) =>
        /\ conf_data.t = "dict"
        /\ file.state = "ok" => conf_data = file.doc
        /\ file.state # "ok" => conf_data = PyDict(EmptyDict)

(***************************************************************************)
(* ConfigManager claims.                                                   *)
(***************************************************************************)
HasDefaults == cfgData.t = "dict" /\ "defaults" \in DOMAIN cfgData.d

DefaultsGiven == cfgData.d["defaults"].d

BuiltIn ==
    [model |-> "gemma3:12b", temperature |-> 0, memory |-> "buffer",
     prompt |-> "What is 1+1?",
     template |-> "Format the following message: {source} into the style: {style}",
     source |-> "", style |-> "", schema_name |-> "", schema_template |-> ""]

\* C11: after ConfigManager(config_data) with a 'defaults' section, each of
\* the nine settings equals the value under its key in 'defaults' when the
\* key is present and the built-in default when it is absent.
C11_DefaultsApplied ==
    (HasDefaults /\ cfgObj.tag = "return") =>
        \A k \in DOMAIN BuiltIn :
            cfgObj.value["_" \o k] =
                IF k \in DOMAIN DefaultsGiven THEN DefaultsGiven[k] ELSE BuiltIn[k]

C11_Witness ==
    /\ HasDefaults
    /\ cfgObj.tag = "return"
    /\ "schema_template" \in DOMAIN DefaultsGiven
    /\ "template" \notin DOMAIN DefaultsGiven
    /\ "temperature" \in DOMAIN DefaultsGiven
    /\ "model" \notin DOMAIN DefaultsGiven
    /\ cfgObj.value._temperature = 7
    /\ cfgObj.value._model = "gemma3:12b"

\* the data an accessor returns is absent from the configuration
SectionAbsent(key) == cfgData.t # "dict" \/ key \notin DOMAIN cfgData.d

\* C12: for every config_data the constructor accepts, get_schemas,
\* get_examples and get_config_data return a mapping without raising, and the
\* mapping is empty when the corresponding data is absent.
C12_AccessorsReturnMappings ==
    (accCall \in {"get_schemas", "get_examples", "get_config_data"}) =>
        /\ accResult.tag = "return"
        /\ accResult.value.t = "dict"
        /\ (accCall = "get_schemas" /\ SectionAbsent("schemas"))
                => accResult.value = PyDict(EmptyDict)
        /\ (accCall = "get_examples" /\ SectionAbsent("examples"))
                => accResult.value = PyDict(EmptyDict)
        /\ (accCall = "get_config_data" /\ ~Truthy(cfgData))
                => accResult.value = PyDict(EmptyDict)

\* C13: get_memory_params returns the 'memory' entry of the loaded
\* configuration when it is present and the configured memory type otherwise,
\* without raising.
C13_MemoryParams ==
    (accCall = "get_memory_params") =>
        /\ accResult.tag = "return"
        /\ accResult.value =
              IF SectionAbsent("memory") THEN PyStr(cfgObj.value._memory)
              ELSE cfgData.d["memory"]

\* C14: get_model_params returns the configured or default model under
\* 'model', and under 'temperature' the temperature given in 'defaults' when
\* present and 0.0 otherwise, a configured 0.0 included.
C14_ModelParams ==
    (accCall = "get_model_params") =>
        /\ accResult.tag = "return"
        /\ accResult.value["model"] = PyStr(cfgObj.value._model)
        /\ accResult.value["temperature"] =
              IF HasDefaults /\ "temperature" \in DOMAIN DefaultsGiven
              THEN PyInt(DefaultsGiven["temperature"])
              ELSE PyInt(0)

(***************************************************************************)
(* Decorator claims.                                                       *)
(***************************************************************************)
\* C15: a function wrapped by handle_exception returns exactly the wrapped
\* function's result when it raises nothing; when it raises an exception the
\* wrapper logs the error once and re-raises that same exception; an
\* exception is never swallowed and None is never returned in its place.
C15_HandleExceptionPropagates ==
    hx.called =>
        /\ hx.result = hx.inner
        /\ hx.inner.tag = "return" => errlog = hx.before
        /\ (hx.inner.tag = "raise" /\ hx.inner.exc \notin BaseExceptions) =>
              errlog = Append(hx.before, [function |-> "func", type |-> hx.inner.exc])

C15_Witness ==
    /\ hx.called
    /\ hx.inner = Raise("KeyError")
    /\ hx.result = Raise("KeyError")
    /\ Len(hx.before) = 1
    /\ Len(errlog) = 2

\* C16: with max_attempts >= 1 the wrapped function is called at most
\* max_attempts times, no call follows a call that succeeded, and the wrapper
\* returns the result of the call that succeeded.
C16_RetryCallsBounded ==
    rt.max_attempts >= 1 =>
        /\ Len(rt.calls) <= rt.max_attempts
        /\ \A i \in 1..(Len(rt.calls) - 1) : rt.calls[i].tag = "raise"
        /\ \A i \in 1..Len(rt.calls) :
              rt.calls[i].tag = "return" => (rt.pc = "done" /\ rt.outcome = rt.calls[i])
        /\ rt.outcome.tag = "return" =>
              (rt.calls # <<>> /\ rt.outcome = rt.calls[Len(rt.calls)])

C16_Witness ==
    /\ rt.max_attempts = 3
    /\ rt.calls = <<Raise("ValueError"), Return("ok")>>
    /\ rt.pc = "done"
    /\ rt.outcome = Return("ok")

\* all max_attempts calls were made and every one of them failed
AllAttemptsFailed ==
    /\ rt.max_attempts >= 1
    /\ Len(rt.calls) = rt.max_attempts
    /\ \A i \in 1..Len(rt.calls) : rt.calls[i].tag = "raise"

\* the wrapper ended by raising what the last call raised
RaisedLastException ==
    /\ rt.pc = "done"
    /\ rt.calls # <<>>
    /\ Len(rt.calls) = rt.max_attempts
    /\ rt.outcome = rt.calls[Len(rt.calls)]

\* C17: when all max_attempts calls fail (max_attempts >= 1) the wrapper
\* terminates after exactly max_attempts calls and raises the exception of
\* the last call.
C17_RetryRaisesLast == AllAttemptsFailed ~> RaisedLastException

C17_Witness ==
    /\ rt.max_attempts = 3
    /\ rt.calls = <<Raise("ValueError"), Raise("ValueError"), Raise("KeyError")>>
    /\ rt.pc = "done"
    /\ rt.outcome = Raise("KeyError")
    /\ rt.log = <<"warning", "warning", "error">>

(***************************************************************************)
(* Parser claims.                                                          *)
(***************************************************************************)
\* the schema name create_schema_parser is to use in its last call
SchemaNameUsed ==
    IF spCall.schema_name \notin {None, ""} THEN spCall.schema_name
    ELSE spCall.self._params.schema_name

\* every field of the list has a name and a description
Described(fields) ==
    \A i \in 1..Len(fields) : DOMAIN fields[i] = {"name", "description"}

\* C18: create_schema_parser uses the given schema name, or the configured
\* default name when none is given; it raises ValueError when that name is
\* empty or not among the loaded schemas, and otherwise builds a parser with
\* one response schema per field of that schema, in the field order.
C18_SchemaParser ==
    spCall.called =>
        LET loaded == spCall.self._schemas
        IN IF SchemaNameUsed = "" \/ SchemaNameUsed \notin DOMAIN loaded
           THEN spResult = Raise("ValueError")
           ELSE Described(loaded[SchemaNameUsed]) =>
                  /\ spResult.tag = "return"
                  /\ spResult.value.t = "StructuredOutputParser"
                  /\ Len(spResult.value.response_schemas) = Len(loaded[SchemaNameUsed])
                  /\ \A i \in 1..Len(loaded[SchemaNameUsed]) :
                        /\ spResult.value.response_schemas[i].name
                              = loaded[SchemaNameUsed][i].name
                        /\ spResult.value.response_schemas[i].description
                              = loaded[SchemaNameUsed][i].description

C18_Witness ==
    /\ spCall.called
    /\ spCall.schema_name = None
    /\ spCall.self._params.schema_name = "review"
    /\ "person" \in DOMAIN spCall.self._schemas
    /\ spResult.tag = "return"
    /\ Len(spResult.value.response_schemas) = 2
    /\ spResult.value.response_schemas[1].name = "rating"
    /\ spResult.value.response_schemas[2].name = "title"

(***************************************************************************)
(* TextProcessor.chat claims.                                              *)
(***************************************************************************)
\* the inputs typed before the first 'exit'
RECURSIVE BeforeExit(_)
BeforeExit(stdin) ==
    IF stdin = <<>> \/ Head(stdin) \in {"exit", "Exit", "EXIT"} THEN <<>>
    ELSE <<Head(stdin)>> \o BeforeExit(Tail(stdin))

====
